---- MODULE Spec2Model ----
(***************************************************************************)
(* Model of the Mini-DBMS storage engine (include/StorageEngine.hpp):      *)
(* StorageManager (paged file behind one fstream), BufferManager (three    *)
(* frames, page table, LRU list) and BPlusTree (leaf insert, leaf split,   *)
(* root promotion).  Every C++ member function is an operator from a state *)
(* record to a state record; an action applies one public call and commits *)
(* the resulting record to the variables.                                  *)
(***************************************************************************)
EXTENDS Integers, Sequences, FiniteSets, TLC

\* ---- program constants (StorageEngine.hpp:16-17) ----
BUFFER_CAPACITY == 3
MAX_KEYS == 3

\* ---- bounds of the model ----
MaxPages == 4      \* page identifiers of direct calls: 0..MaxPages-1
MaxCalls == 6      \* direct BufferManager calls in one run
MaxInserts == 10   \* inserts performed on one tree
NumKeys == 5       \* key values offered to insert: 10, 20, .., 10*NumKeys
NumContents == 1   \* distinct non-zero page images offered to direct calls
MaxDiskCalls == 4  \* BufferManager calls in a run that also writes the file
MaxFinds == 2      \* direct findLeaf calls in one run
MaxRefInserts == 7 \* inserts in a run that also keeps the reference tree

PageIds == 0..(MaxPages - 1)
Keys == {10 * i : i \in 1..NumKeys}
Frames == 0..(BUFFER_CAPACITY - 1)

VARIABLES
    file,        \* dbFile contents: sequence of page images, page p at p+1
    failed,      \* dbFile.fail(): failbit of the fstream, never cleared
    pool,        \* BufferManager::pool, frame index -> Frame
    pageTable,   \* BufferManager::pageTable, pageID -> frame index
    lru,         \* BufferManager::lru, front (index 1) is newest
    nextPageID,  \* BufferManager::nextPageID
    rootPage,    \* BPlusTree::rootPage (-1 while no tree is constructed)
    buf,         \* caller's buffer handed to a direct readDisk call
    log,         \* history: the last public call (first event) and what it
                 \* did, in code order
    recent,      \* history: resident pages by latest fetch, newest first
    allocs,      \* history: identifiers returned by allocatePage, in order
    script,      \* history: inserts done so far while they follow main.cpp
    evicted,     \* history: evict() has taken its victim branch at least once
    rootChanges, \* history: number of times rootPage was reassigned by insert
    calls,       \* history: number of BufferManager / insert calls so far
    ideal        \* the tree of the same inserts kept in a page map that
                 \* never evicts (only the reference run keeps it up)

vars == <<file, failed, pool, pageTable, lru, nextPageID, rootPage, buf, log,
          recent, allocs, script, evicted, rootChanges, calls, ideal>>

\* ---- BPlusNode: the record overlaid on a page (arrays keep C indices) ----
ZeroPage ==
    [isLeaf |-> FALSE, numKeys |-> 0, parentPage |-> 0,
     keys |-> [i \in 0..(MAX_KEYS - 1) |-> 0],
     children |-> [i \in 0..MAX_KEYS |-> 0],
     nextLeaf |-> 0]

\* "no image": what a page has on disk when the file does not reach it
NoPage == [ZeroPage EXCEPT !.numKeys = -1]

\* a Frame after value-initialisation by vector<Frame>(BUFFER_CAPACITY)
EmptyFrame == [pageID |-> -1, dirty |-> FALSE, data |-> ZeroPage]

\* page images used as arbitrary bytes by direct calls
Contents ==
    {ZeroPage} \cup {[ZeroPage EXCEPT !.nextLeaf = c] : c \in 1..NumContents}

\* one step of the history; dirty and held are filled in by Note
Ev(op, page, frame, flag, data, disk) ==
    [op |-> op, page |-> page, frame |-> frame, flag |-> flag,
     data |-> data, disk |-> disk, dirty |-> <<>>, held |-> <<>>]

\* history: step e is recorded in state s, with every frame's dirty flag and
\* page identifier as they are when the step is done
Note(s, e) ==
    [s EXCEPT !.log = Append(@, [e EXCEPT
                  !.dirty = [f \in DOMAIN s.pool |-> s.pool[f].dirty],
                  !.held = [f \in DOMAIN s.pool |-> s.pool[f].pageID]])]

\* the image of page p in the file, NoPage when the file is shorter
DiskImage(f, p) == IF p + 1 <= Len(f) THEN f[p + 1] ELSE NoPage

\* ---- StorageManager ----

\* writeDisk: seekp/write/flush do nothing once the stream has failed;
\* otherwise the page is stored and a gap before it reads as zeros.
writeDisk(s, pageID, data) ==
    IF s.failed
    THEN s
    ELSE LET n == IF Len(s.file) > pageID + 1 THEN Len(s.file) ELSE pageID + 1
         IN [s EXCEPT !.file =
                [i \in 1..n |-> IF i = pageID + 1 THEN data
                                ELSE IF i <= Len(s.file) THEN s.file[i]
                                ELSE ZeroPage]]

\* readDisk into a buffer that currently holds `buffer`: s.out is the buffer
\* afterwards.  A read that starts at or after end of file extracts nothing,
\* leaves the buffer as it was and sets failbit; a failed stream reads nothing.
readDisk(s, pageID, buffer) ==
    IF s.failed
    THEN [s EXCEPT !.out = buffer]
    ELSE IF pageID + 1 <= Len(s.file)
         THEN [s EXCEPT !.out = s.file[pageID + 1]]
         ELSE [s EXCEPT !.out = buffer, !.failed = TRUE]

\* ---- BufferManager ----

\* pageTable.erase(k) with the entry left in the map
RemoveKey_keep(pt, k) == pt

\* pageTable.erase(k)
RemoveKey(pt, k) == [q \in (DOMAIN pt) \ {k} |-> pt[q]]

\* pageTable[k] = v
PutKey(pt, k, v) == [q \in (DOMAIN pt) \cup {k} |-> IF q = k THEN v ELSE pt[q]]

\* touch with push_back in place of push_front
touch_pushBack(s, idx) ==
    [s EXCEPT !.lru = SelectSeq(s.lru, LAMBDA x : x # idx) \o <<idx>>]

\* touch with the lru.remove(idx) left out
touch_noRemove(s, idx) == [s EXCEPT !.lru = <<idx>> \o s.lru]

\* touch: lru.remove(idx); lru.push_front(idx)
touch(s, idx) ==
    [s EXCEPT !.lru = <<idx>> \o SelectSeq(s.lru, LAMBDA x : x # idx)]

\* markDirty that also moves the frame to the front of the recency list
markDirty_touch(s, pageID) ==
    IF pageID \in DOMAIN s.pageTable
    THEN touch([s EXCEPT !.pool[s.pageTable[pageID]].dirty = TRUE],
               s.pageTable[pageID])
    ELSE s

\* markDirty that sets nothing
markDirty_skip(s, pageID) == s

\* markDirty: only when the page is in the page table
markDirty(s, pageID) ==
    IF pageID \in DOMAIN s.pageTable
    THEN [s EXCEPT !.pool[s.pageTable[pageID]].dirty = TRUE]
    ELSE s

\* evict that takes lru.front(), the newest frame, as its victim
evict_newest(s) ==
    LET idx == s.lru[1]
        fr == s.pool[idx]
        Release(s1) ==
            Note([s1 EXCEPT !.pageTable = RemoveKey(@, fr.pageID),
                            !.lru = SubSeq(@, 2, Len(@)),
                            !.ret = idx],
                 Ev("evict", fr.pageID, idx, fr.dirty, fr.data,
                    DiskImage(s1.file, fr.pageID)))
    IN IF Len(s.lru) < BUFFER_CAPACITY
       THEN Note([s EXCEPT !.ret = Len(s.lru)],
                 Ev("free", -1, Len(s.lru), FALSE, ZeroPage, NoPage))
       ELSE Release(IF fr.dirty THEN writeDisk(s, fr.pageID, fr.data) ELSE s)

\* evict with the write-back done whether or not the victim is dirty
evict_alwaysWrite(s) ==
    LET idx == s.lru[Len(s.lru)]
        fr == s.pool[idx]
        Release(s1) ==
            Note([s1 EXCEPT !.pageTable = RemoveKey(@, fr.pageID),
                            !.lru = SubSeq(@, 1, Len(@) - 1),
                            !.ret = idx],
                 Ev("evict", fr.pageID, idx, fr.dirty, fr.data,
                    DiskImage(s1.file, fr.pageID)))
    IN IF Len(s.lru) < BUFFER_CAPACITY
       THEN Note([s EXCEPT !.ret = Len(s.lru)],
                 Ev("free", -1, Len(s.lru), FALSE, ZeroPage, NoPage))
       ELSE Release(writeDisk(s, fr.pageID, fr.data))

\* evict: s.ret is the frame index to use
evict(s) ==
    LET idx == s.lru[Len(s.lru)]
        fr == s.pool[idx]
        \* lines 99-101, s1 the state after the write-back of line 98
        Release(s1) ==
            Note([s1 EXCEPT !.pageTable = RemoveKey(@, fr.pageID),
                            !.lru = SubSeq(@, 1, Len(@) - 1),
                            !.ret = idx],
                 Ev("evict", fr.pageID, idx, fr.dirty, fr.data,
                    DiskImage(s1.file, fr.pageID)))
    IN IF Len(s.lru) < BUFFER_CAPACITY
       THEN Note([s EXCEPT !.ret = Len(s.lru)],
                 Ev("free", -1, Len(s.lru), FALSE, ZeroPage, NoPage))
       ELSE Release(IF fr.dirty THEN writeDisk(s, fr.pageID, fr.data) ELSE s)

\* fetchPage, buffer hit (lines 66-70)
fetchHit(s, pageID) ==
    Note([touch(s, s.pageTable[pageID]) EXCEPT !.ret = s.pageTable[pageID]],
         Ev("hit", pageID, s.pageTable[pageID], FALSE,
            s.pool[s.pageTable[pageID]].data, NoPage))

\* fetchPage, buffer miss (lines 72-79)
fetchMiss(s, pageID) ==
    LET \* lines 75-79, s2 the state after readDisk filled s2.out
        Install(s2, frameIdx) ==
            Note([touch([s2 EXCEPT !.pool[frameIdx] =
                                       [pageID |-> pageID, dirty |-> FALSE,
                                        data |-> s2.out],
                                   !.pageTable = PutKey(@, pageID, frameIdx)],
                        frameIdx)
                     EXCEPT !.ret = frameIdx],
                 Ev("load", pageID, frameIdx, FALSE, s2.out,
                    DiskImage(s2.file, pageID)))
        \* line 74, s1 the state after evict()
        Read(s1) ==
            Install(readDisk(s1, pageID, s1.pool[s1.ret].data), s1.ret)
    IN Read(evict(s))

\* fetchPage without the page-table lookup: every call takes the miss path
fetchPage_alwaysMiss(s, pageID) == fetchMiss(s, pageID)

\* fetchPage: s.ret is the frame whose data the returned pointer aliases
fetchPage(s, pageID) ==
    IF pageID \in DOMAIN s.pageTable
    THEN fetchHit(s, pageID)
    ELSE fetchMiss(s, pageID)

\* allocatePage with pid = nextPageID, the increment forgotten
allocatePage_noIncrement(s) ==
    LET pid == s.nextPageID
        Zero(s2) ==
            Note([markDirty([s2 EXCEPT !.pool[s2.ret].data = ZeroPage], pid)
                     EXCEPT !.ret = pid],
                 Ev("alloc", pid, s2.ret, FALSE, ZeroPage, NoPage))
    IN Zero(fetchPage(s, pid))

\* allocatePage: s.ret is the new page identifier
allocatePage(s) ==
    LET pid == s.nextPageID
        \* lines 86-88, s2 the state after fetchPage(pid)
        Zero(s2) ==
            Note([markDirty([s2 EXCEPT !.pool[s2.ret].data = ZeroPage], pid)
                     EXCEPT !.ret = pid],
                 Ev("alloc", pid, s2.ret, FALSE, ZeroPage, NoPage))
    IN Zero(fetchPage([s EXCEPT !.nextPageID = pid + 1], pid))

\* ---- BPlusTree ----

\* the scan with the comparison key > keys[i]
RECURSIVE ScanChild_strict(_, _, _)
ScanChild_strict(node, key, i) ==
    IF i < node.numKeys /\ key > node.keys[i]
    THEN ScanChild_strict(node, key, i + 1)
    ELSE i

\* the scan of findLeaf: while (i < numKeys && key >= keys[i]) i++
RECURSIVE ScanChild(_, _, _)
ScanChild(node, key, i) ==
    IF i < node.numKeys /\ key >= node.keys[i]
    THEN ScanChild(node, key, i + 1)
    ELSE i

\* findLeaf: s.ret is the page identifier of the leaf reached
RECURSIVE findLeaf(_, _, _)
findLeaf(s, currPage, key) ==
    LET \* lines 142-145, s1 the state after fetchPage(currPage)
        Descend(s1, node) ==
            IF node.isLeaf
            THEN Note([s1 EXCEPT !.ret = currPage],
                      Ev("visit", currPage, s1.ret, TRUE, node, NoPage))
            ELSE findLeaf(Note(s1, Ev("visit", currPage, s1.ret, FALSE, node,
                                      NoPage)),
                          node.children[ScanChild(node, key, 0)], key)
        Look(s1) == Descend(s1, s1.pool[s1.ret].data)
    IN Look(fetchPage(s, currPage))

\* the shift loop with the comparison reversed (keys[i] < key)
RECURSIVE ShiftKeys_reversed(_, _, _)
ShiftKeys_reversed(keys, i, key) ==
    IF i >= 0 /\ keys[i] < key
    THEN ShiftKeys_reversed([keys EXCEPT ![i + 1] = keys[i]], i - 1, key)
    ELSE <<keys, i>>

\* the shift loop of insertIntoLeaf; the result is <<keys, i>> at loop exit
RECURSIVE ShiftKeys(_, _, _)
ShiftKeys(keys, i, key) ==
    IF i >= 0 /\ keys[i] > key
    THEN ShiftKeys([keys EXCEPT ![i + 1] = keys[i]], i - 1, key)
    ELSE <<keys, i>>

\* x put into the sorted sequence r
InsertSorted(r, x) ==
    SelectSeq(r, LAMBDA y : y <= x) \o <<x>> \o SelectSeq(r, LAMBDA y : y > x)

\* std::sort left out: tempKeys stays as pushed
sortKeys_unsorted(q) == q

\* std::sort on a vector<int>, as an insertion sort
RECURSIVE sortKeys(_)
sortKeys(q) ==
    IF Len(q) <= 1
    THEN q
    ELSE InsertSorted(sortKeys(SubSeq(q, 1, Len(q) - 1)), q[Len(q)])

\* for (i = 0; i < node->numKeys; i++) node->keys[i] = tempKeys[off + i],
\* the bound re-read through the pointer (frame f) on every iteration
RECURSIVE CopyKeys(_, _, _, _, _)
CopyKeys(s, f, tempKeys, off, i) ==
    IF i < s.pool[f].data.numKeys
    THEN CopyKeys([s EXCEPT !.pool[f].data.keys[i] = tempKeys[off + i + 1]],
                  f, tempKeys, off, i + 1)
    ELSE s

\* history: the tree code has just read or written node bytes through the
\* pointer `name`, which fetchPage(page) returned as the data of `frame`
Use(s, name, page, frame) ==
    Note(s, Ev(name, page, frame, FALSE, s.pool[frame].data, NoPage))

\* the body of insertIntoParent's if (lines 192-200)
createRoot(s, left, key, right) ==
    LET \* lines 194-199, s2 the state after fetchPage(newRoot)
        Fill(s2, newRoot) ==
            Use([s2 EXCEPT !.pool[s2.ret].data.isLeaf = FALSE,
                           !.pool[s2.ret].data.keys[0] = key,
                           !.pool[s2.ret].data.children[0] = left,
                           !.pool[s2.ret].data.children[1] = right,
                           !.pool[s2.ret].data.numKeys = 1,
                           !.rootPage = newRoot],
                "r", newRoot, s2.ret)
        Fetch(s1) == Fill(fetchPage(s1, s1.ret), s1.ret)
    IN Fetch(allocatePage(s))

\* what a completed insertIntoParent would do for a leaf below the root: add
\* the key and the right sibling to the root when it has room
linkIntoRoot(s, key, right) ==
    LET Add(s1, n) ==
            IF n < MAX_KEYS
            THEN [s1 EXCEPT !.pool[s1.ret].data.keys[n] = key,
                            !.pool[s1.ret].data.children[n + 1] = right,
                            !.pool[s1.ret].data.numKeys = n + 1]
            ELSE s1
        Fetch(s1) == Add(s1, s1.pool[s1.ret].data.numKeys)
    IN Fetch(fetchPage(s, s.rootPage))

\* history: insertIntoParent(left, key, right) was entered
ParentEvent(s, left, key, right) ==
    Note(s, Ev("parent", left, right, left = s.rootPage,
               [ZeroPage EXCEPT !.keys[0] = key], NoPage))

\* insertIntoParent without the test left == rootPage
insertIntoParent_always(s, left, key, right) ==
    createRoot(ParentEvent(s, left, key, right), left, key, right)

\* insertIntoParent that links the sibling into the root when left is not
\* the root
insertIntoParent_link(s, left, key, right) ==
    IF left = s.rootPage
    THEN createRoot(ParentEvent(s, left, key, right), left, key, right)
    ELSE linkIntoRoot(ParentEvent(s, left, key, right), key, right)

insertIntoParent(s, left, key, right) ==
    IF left = s.rootPage
    THEN createRoot(ParentEvent(s, left, key, right), left, key, right)
    ELSE ParentEvent(s, left, key, right)

\* the split point computed as MAX_KEYS / 2
SplitPoint_low == MAX_KEYS \div 2

\* int mid = (MAX_KEYS + 1) / 2
SplitPoint == (MAX_KEYS + 1) \div 2

\* splitLeaf from line 171 on: oldNode and newNode are the frames behind the
\* two pointers, rootBefore the root page when splitLeaf was entered
splitNodes(s3, oldPageID, newPageID, oldNode, newNode, key, rootBefore) ==
    LET before == s3.pool[oldNode].data
        tempKeys == sortKeys([i \in 1..MAX_KEYS |-> before.keys[i - 1]]
                             \o <<key>>)
        mid == SplitPoint
        \* lines 175-178, in this order
        s6 == [s3 EXCEPT !.pool[newNode].data.isLeaf = TRUE,
                         !.pool[oldNode].data.numKeys = mid,
                         !.pool[newNode].data.numKeys = (MAX_KEYS + 1) - mid]
        \* line 187, s10 the state after both markDirty calls
        Promote(s10) ==
            insertIntoParent(
                Note(s10, Ev("split", oldPageID, newPageID,
                             oldPageID = rootBefore, s10.pool[newNode].data,
                             before)),
                oldPageID, s10.pool[newNode].data.keys[0], newPageID)
        \* lines 183-184, s8 the state after both copy loops
        Mark(s8) ==
            Promote(Use(markDirty(markDirty(Use(s8, "oldNode", oldPageID,
                                                oldNode),
                                            oldPageID), newPageID),
                        "newNode", newPageID, newNode))
    IN Mark(CopyKeys(CopyKeys(s6, oldNode, tempKeys, 0, 0),
                     newNode, tempKeys, mid, 0))

splitLeaf(s, oldPageID, key) ==
    LET \* s3 the state after fetchPage(newPageID), line 169
        WithBoth(s3, newPageID, oldNode) ==
            splitNodes(s3, oldPageID, newPageID, oldNode, s3.ret, key,
                       s.rootPage)
        \* s2 the state after fetchPage(oldPageID), line 168
        WithOld(s2, newPageID) ==
            WithBoth(fetchPage(s2, newPageID), newPageID, s2.ret)
        \* s1 the state after allocatePage(), line 167
        WithNew(s1) == WithOld(fetchPage(s1, oldPageID), s1.ret)
    IN WithNew(allocatePage(s))

insertIntoLeaf(s, pageID, key) ==
    LET \* lines 151-158, sh the keys and i after the shift loop
        Place(s1, node, sh) ==
            markDirty(Use([s1 EXCEPT !.pool[s1.ret].data.keys =
                                         [sh[1] EXCEPT ![sh[2] + 1] = key],
                                     !.pool[s1.ret].data.numKeys =
                                         node.numKeys + 1],
                          "node", pageID, s1.ret),
                      pageID)
        Decide(s1, node) ==
            IF node.numKeys < MAX_KEYS
            THEN Place(s1, node, ShiftKeys(node.keys, node.numKeys - 1, key))
            ELSE splitLeaf(Use(s1, "node", pageID, s1.ret), pageID, key)
        Look(s1) == Decide(s1, s1.pool[s1.ret].data)
    IN Look(fetchPage(s, pageID))

insert(s, key) ==
    LET Found(s1) == insertIntoLeaf(s1, s1.ret, key)
    IN Found(findLeaf(s, s.rootPage, key))

\* the constructor BPlusTree(BufferManager&)
BPlusTreeCtor(s) ==
    LET \* lines 129-131, s3 the state after fetchPage(rootPage)
        Fill(s3) ==
            Use([s3 EXCEPT !.pool[s3.ret].data.isLeaf = TRUE,
                           !.pool[s3.ret].data.numKeys = 0,
                           !.pool[s3.ret].data.parentPage = -1],
                "root", s3.rootPage, s3.ret)
        Fetch(s1) == Fill(fetchPage([s1 EXCEPT !.rootPage = s1.ret], s1.ret))
    IN Fetch(allocatePage(s))

\* ---- the tree code over a page map that holds every page and never
\* ---- evicts: mem[p + 1] is page p, a pointer to page p is mem[p + 1] ----

RefFresh == [mem |-> <<>>, rootPage |-> -1, ret |-> -1]

\* allocatePage: the next identifier, its page zero-filled
Ref_allocatePage(r) ==
    [r EXCEPT !.mem = Append(@, ZeroPage), !.ret = Len(r.mem)]

Ref_insertIntoParent(r, left, key, right) ==
    LET Fill(r1, newRoot) ==
            [r1 EXCEPT !.mem[newRoot + 1].isLeaf = FALSE,
                       !.mem[newRoot + 1].keys[0] = key,
                       !.mem[newRoot + 1].children[0] = left,
                       !.mem[newRoot + 1].children[1] = right,
                       !.mem[newRoot + 1].numKeys = 1,
                       !.rootPage = newRoot]
        Fetch(r1) == Fill(r1, r1.ret)
    IN IF left = r.rootPage THEN Fetch(Ref_allocatePage(r)) ELSE r

\* the copy loop of lines 180-181 on page p
RECURSIVE Ref_CopyKeys(_, _, _, _, _)
Ref_CopyKeys(r, p, tempKeys, off, i) ==
    IF i < r.mem[p + 1].numKeys
    THEN Ref_CopyKeys([r EXCEPT !.mem[p + 1].keys[i] = tempKeys[off + i + 1]],
                      p, tempKeys, off, i + 1)
    ELSE r

Ref_splitLeaf(r, oldPageID, key) ==
    LET Promote(r3, newPageID) ==
            Ref_insertIntoParent(r3, oldPageID, r3.mem[newPageID + 1].keys[0],
                                 newPageID)
        Copy(r2, newPageID, tempKeys) ==
            Promote(Ref_CopyKeys(Ref_CopyKeys(r2, oldPageID, tempKeys, 0, 0),
                                 newPageID, tempKeys, SplitPoint, 0),
                    newPageID)
        Split(r1, newPageID) ==
            Copy([r1 EXCEPT !.mem[newPageID + 1].isLeaf = TRUE,
                            !.mem[oldPageID + 1].numKeys = SplitPoint,
                            !.mem[newPageID + 1].numKeys =
                                (MAX_KEYS + 1) - SplitPoint],
                 newPageID,
                 sortKeys([i \in 1..MAX_KEYS |->
                               r1.mem[oldPageID + 1].keys[i - 1]] \o <<key>>))
        WithNew(r1) == Split(r1, r1.ret)
    IN WithNew(Ref_allocatePage(r))

Ref_insertIntoLeaf(r, pageID, key) ==
    LET Place(node, sh) ==
            [r EXCEPT !.mem[pageID + 1].keys = [sh[1] EXCEPT ![sh[2] + 1] = key],
                      !.mem[pageID + 1].numKeys = node.numKeys + 1]
        Decide(node) ==
            IF node.numKeys < MAX_KEYS
            THEN Place(node, ShiftKeys(node.keys, node.numKeys - 1, key))
            ELSE Ref_splitLeaf(r, pageID, key)
    IN Decide(r.mem[pageID + 1])

\* findLeaf: the page identifier of the leaf reached
RECURSIVE Ref_findLeaf(_, _, _)
Ref_findLeaf(r, currPage, key) ==
    IF r.mem[currPage + 1].isLeaf
    THEN currPage
    ELSE Ref_findLeaf(r, r.mem[currPage + 1].children[
                             ScanChild(r.mem[currPage + 1], key, 0)], key)

Ref_insert(r, key) == Ref_insertIntoLeaf(r, Ref_findLeaf(r, r.rootPage, key), key)

Ref_BPlusTreeCtor(r) ==
    LET Fill(r1) ==
            [r1 EXCEPT !.mem[r1.ret + 1].isLeaf = TRUE,
                       !.mem[r1.ret + 1].numKeys = 0,
                       !.mem[r1.ret + 1].parentPage = -1,
                       !.rootPage = r1.ret]
    IN Fill(Ref_allocatePage(r))

\* ---- the program state as a record, and its commit to the variables ----

\* StorageManager and BufferManager right after construction
Fresh ==
    [file |-> <<>>, failed |-> FALSE,
     pool |-> [f \in Frames |-> EmptyFrame],
     pageTable |-> [q \in {} |-> 0],
     lru |-> <<>>, nextPageID |-> 0, rootPage |-> -1,
     log |-> <<>>, ret |-> -1, out |-> ZeroPage]

\* the current state at the start of a public call op(arg, data)
Begin(op, arg, data) ==
    [file |-> file, failed |-> failed, pool |-> pool,
     pageTable |-> pageTable, lru |-> lru, nextPageID |-> nextPageID,
     rootPage |-> rootPage,
     log |-> <<[Ev(op, arg, -1, FALSE, data, NoPage) EXCEPT
                   !.dirty = [f \in Frames |-> pool[f].dirty],
                   !.held = [f \in Frames |-> pool[f].pageID]]>>,
     ret |-> -1, out |-> ZeroPage]

\* the inserts of main.cpp:14-18
MainScript == <<10, 20, 30, 40, 50>>

\* resident pages ordered by latest fetch, after the steps recorded in l
RECURSIVE FoldRecent(_, _, _)
FoldRecent(r, l, i) ==
    IF i > Len(l)
    THEN r
    ELSE IF l[i].op \in {"hit", "load"}
         THEN FoldRecent(<<l[i].page>>
                             \o SelectSeq(r, LAMBDA x : x # l[i].page),
                         l, i + 1)
         ELSE IF l[i].op = "evict"
         THEN FoldRecent(SelectSeq(r, LAMBDA x : x # l[i].page), l, i + 1)
         ELSE FoldRecent(r, l, i + 1)

\* the identifiers returned by the allocatePage calls recorded in l
AllocIds(l) ==
    LET idx == SelectSeq([i \in 1..Len(l) |-> i], LAMBDA i : l[i].op = "alloc")
    IN [k \in 1..Len(idx) |-> l[idx[k]].page]

HasEvent(l, op) == \E i \in 1..Len(l) : l[i].op = op

NextScript(sc, call) ==
    IF call.op # "insert"
    THEN sc
    ELSE IF /\ sc >= 0
            /\ sc < Len(MainScript)
            /\ call.page = MainScript[sc + 1]
         THEN sc + 1
         ELSE -1

Commit(s) ==
    /\ file' = s.file
    /\ failed' = s.failed
    /\ pool' = s.pool
    /\ pageTable' = s.pageTable
    /\ lru' = s.lru
    /\ nextPageID' = s.nextPageID
    /\ rootPage' = s.rootPage
    /\ log' = s.log
    /\ recent' = FoldRecent(recent, s.log, 1)
    /\ allocs' = allocs \o AllocIds(s.log)
    /\ script' = NextScript(script, s.log[1])
    /\ evicted' = (evicted \/ HasEvent(s.log, "evict"))
    /\ rootChanges' = IF s.rootPage # rootPage /\ rootChanges < 2
                      THEN rootChanges + 1
                      ELSE rootChanges
    /\ calls' = IF s.log[1].op \in {"writeDisk", "readDisk"}
                THEN calls
                ELSE calls + 1

InitFrom(s) ==
    /\ file = s.file
    /\ failed = s.failed
    /\ pool = s.pool
    /\ pageTable = s.pageTable
    /\ lru = s.lru
    /\ nextPageID = s.nextPageID
    /\ rootPage = s.rootPage
    /\ buf = ZeroPage
    /\ log = s.log
    /\ recent = FoldRecent(<<>>, s.log, 1)
    /\ allocs = AllocIds(s.log)
    /\ script = 0
    /\ evicted = HasEvent(s.log, "evict")
    /\ rootChanges = 0
    /\ calls = 0
    /\ ideal = IF s.rootPage = -1 THEN RefFresh ELSE Ref_BPlusTreeCtor(RefFresh)

\* ---- StorageManager driven directly ----

InitSM == InitFrom(Fresh)

WriteDisk(p, b) ==
    \E s0 \in {Begin("writeDisk", p, b)} :
    \E s \in {writeDisk(s0, p, b)} :
        /\ Commit(s)
        /\ UNCHANGED <<buf, ideal>>

\* readDisk into a caller buffer that holds c before the call
ReadDisk(p, c) ==
    \E s0 \in {Begin("readDisk", p, c)} :
    \E s \in {readDisk(s0, p, c)} :
        /\ Commit(s)
        /\ buf' = s.out
        /\ UNCHANGED ideal

NextSM ==
    \/ \E p \in PageIds, b \in Contents : WriteDisk(p, b)
    \/ \E p \in PageIds, c \in Contents : ReadDisk(p, c)

SpecSM == InitSM /\ [][NextSM]_vars

\* ---- BufferManager driven directly ----

InitBM == InitFrom(Fresh)

FetchPage(p) ==
    /\ calls < MaxCalls
    /\ \E s0 \in {Begin("fetchPage", p, ZeroPage)} :
       \E s \in {fetchPage(s0, p)} :
           Commit(s)
    /\ UNCHANGED <<buf, ideal>>

\* a client storing bytes b through the pointer fetchPage(p) returned
StoreBytes(p, b) ==
    /\ calls < MaxCalls
    /\ \E s0 \in {Begin("store", p, b)} :
       \E s1 \in {fetchPage(s0, p)} :
       \E s \in {[s1 EXCEPT !.pool[s1.ret].data = b]} :
           Commit(s)
    /\ UNCHANGED <<buf, ideal>>

AllocatePage ==
    /\ calls < MaxCalls
    /\ nextPageID < MaxPages
    /\ \E s0 \in {Begin("allocatePage", -1, ZeroPage)} :
       \E s \in {allocatePage(s0)} :
           Commit(s)
    /\ UNCHANGED <<buf, ideal>>

MarkDirty(p) ==
    /\ calls < MaxCalls
    /\ \E s0 \in {Begin("markDirty", p, ZeroPage)} :
       \E s \in {markDirty(s0, p)} :
           Commit(s)
    /\ UNCHANGED <<buf, ideal>>

NextBM ==
    \/ \E p \in PageIds : FetchPage(p)
    \/ \E p \in PageIds, b \in Contents : StoreBytes(p, b)
    \/ AllocatePage
    \/ \E p \in PageIds : MarkDirty(p)

SpecBM == InitBM /\ [][NextBM]_vars

\* ---- BufferManager over a StorageManager whose writeDisk was called
\* ---- directly first, so that pages exist in the file when they are fetched

InitDisk == InitFrom(Fresh)

\* a direct writeDisk call made before the BufferManager is first used
DiskWrite(p, b) == calls = 0 /\ WriteDisk(p, b)

DiskFetch(p) == calls < MaxDiskCalls /\ FetchPage(p)

DiskStore(p, b) == calls < MaxDiskCalls /\ StoreBytes(p, b)

DiskAllocate == calls < MaxDiskCalls /\ AllocatePage

DiskMarkDirty(p) == calls < MaxDiskCalls /\ MarkDirty(p)

NextDisk ==
    \/ \E p \in PageIds, b \in Contents : DiskWrite(p, b)
    \/ \E p \in PageIds : DiskFetch(p)
    \/ \E p \in PageIds, b \in Contents : DiskStore(p, b)
    \/ DiskAllocate
    \/ \E p \in PageIds : DiskMarkDirty(p)

SpecDisk == InitDisk /\ [][NextDisk]_vars

\* ---- BPlusTree over the BufferManager: main.cpp:9-11, then inserts ----

Init ==
    \E s \in {BPlusTreeCtor(Note(Fresh, Ev("ctor", -1, -1, FALSE, ZeroPage,
                                           NoPage)))} :
        InitFrom(s)

Insert(k) ==
    /\ calls < MaxInserts
    /\ \E s0 \in {Begin("insert", k, ZeroPage)} :
       \E s \in {insert(s0, k)} :
           Commit(s)
    /\ UNCHANGED <<buf, ideal>>

Next == \E k \in Keys : Insert(k)

Spec == Init /\ [][Next]_vars

\* ---- the tree of main.cpp next to the reference tree of the same inserts

RefInsert(k) ==
    /\ calls < MaxRefInserts
    /\ \E s0 \in {Begin("insert", k, ZeroPage)} :
       \E s \in {insert(s0, k)} :
           Commit(s)
    /\ ideal' = Ref_insert(ideal, k)
    /\ UNCHANGED buf

NextRef == \E k \in Keys : RefInsert(k)

SpecRef == Init /\ [][NextRef]_vars

\* ---- findLeaf called directly on a tree whose file was filled by direct
\* ---- writeDisk calls before the BufferManager and the tree were made ----

\* internal nodes with 0..MAX_KEYS ascending keys over the children 2, 3, ..
InternalNodes ==
    {[ZeroPage EXCEPT !.numKeys = x[1], !.keys = x[2],
                      !.children = [i \in 0..MAX_KEYS |-> 2 + i]] :
        x \in {y \in (0..MAX_KEYS) \X [0..(MAX_KEYS - 1) -> Keys \cup {0}] :
                  /\ \A i \in 0..(MAX_KEYS - 1) :
                         (i < y[1]) <=> (y[2][i] # 0)
                  /\ \A i, j \in 0..(y[1] - 1) :
                         i < j => y[2][i] <= y[2][j]}}

EmptyLeaf == [ZeroPage EXCEPT !.isLeaf = TRUE]

\* writeDisk(from, b), writeDisk(from + 1, b), .., writeDisk(to, b)
RECURSIVE writeLeaves(_, _, _)
writeLeaves(s, from, to) ==
    IF from > to
    THEN s
    ELSE writeLeaves(writeDisk(s, from, EmptyLeaf), from + 1, to)

\* page 0 for the root the constructor allocates, page 1 the internal node,
\* pages 2 .. MAX_KEYS + 2 its leaf children
InitFind ==
    \E node \in InternalNodes :
    \E s0 \in {writeLeaves(writeDisk(writeDisk(Fresh, 0, ZeroPage), 1, node),
                            2, MAX_KEYS + 2)} :
    \E s \in {BPlusTreeCtor(Note(s0, Ev("ctor", -1, -1, FALSE, ZeroPage,
                                       NoPage)))} :
        InitFrom(s)

\* findLeaf(currPage, key); the page it returns is recorded as a last step
FindLeaf(currPage, key) ==
    /\ calls < MaxFinds
    /\ \E s0 \in {Begin("findLeaf", key, ZeroPage)} :
       \E s1 \in {findLeaf(s0, currPage, key)} :
       \E s \in {Note(s1, Ev("return", s1.ret, -1, FALSE, ZeroPage, NoPage))} :
           Commit(s)
    /\ UNCHANGED <<buf, ideal>>

NextFind == \E currPage \in 0..2, key \in Keys : FindLeaf(currPage, key)

SpecFind == InitFind /\ [][NextFind]_vars

\* ---- views of the state used by the properties ----

Resident == DOMAIN pageTable

Occupied == {f \in Frames : pool[f].pageID # -1}

EventsOf(l, op) == {i \in 1..Len(l) : l[i].op = op}

\* position of page q in a recency order (1 is the newest)
Pos(r, q) == CHOOSE i \in 1..Len(r) : r[i] = q

KeysOf(n) == {n.keys[i] : i \in 0..(n.numKeys - 1)}

\* every leaf image that exists: in a frame, or in the file
LeafImages ==
    {pool[f].data : f \in {g \in Occupied : pool[g].data.isLeaf}}
    \cup {file[i] : i \in {j \in 1..Len(file) : file[j].isLeaf}}

\* the node the tree code sees at its root
PointedNode(s) == s.pool[s.ret].data

RootNode == PointedNode(fetchPage(Begin("view", rootPage, ZeroPage), rootPage))

\* the node the tree code sees when it descends from the root into page c
NodeBelowRoot(c) ==
    PointedNode(fetchPage(fetchPage(Begin("view", rootPage, ZeroPage),
                                    rootPage), c))

RootChildren == {RootNode.children[i] : i \in 0..RootNode.numKeys}

\* keys found in the leaves reachable from the root
ReachableLeafKeys ==
    IF RootNode.isLeaf
    THEN KeysOf(RootNode)
    ELSE UNION {KeysOf(NodeBelowRoot(c)) : c \in RootChildren}

\* ---- C7 ----
\* C7 (page round-trip): in any state of the StorageManager, writeDisk(p, b)
\* immediately followed by readDisk(p) leaves exactly b in the read buffer.
RoundTrip ==
    [][(/\ log # <<>>
        /\ log[1].op = "writeDisk"
        /\ log'[1].op = "readDisk"
        /\ log'[1].page = log[1].page) => buf' = log[1].data]_vars

\* ---- C1 ----
\* C1 (dirty write-back): whenever evict() picks a victim whose dirty flag is
\* set, the file's image of the victim's page, taken when evict() returns and
\* so before the frame is loaded with another page, equals the frame's bytes
\* at eviction time.
DirtyWriteBack ==
    \A i \in EventsOf(log, "evict") :
        log[i].flag =>
            /\ log[i].disk = log[i].data
            /\ \A j \in EventsOf(log, "load") :
                   log[j].frame = log[i].frame => i < j

\* ---- C2 ----
\* C2 (cache coherence): after every call the keys of the page table are
\* exactly the page identifiers held by the occupied frames, and at most
\* BUFFER_CAPACITY pages are resident.
CacheCoherence ==
    /\ Resident = {pool[f].pageID : f \in Occupied}
    /\ Cardinality(Resident) <= BUFFER_CAPACITY

\* a full pool right after a call that evicted a page
CoherenceWitness ==
    /\ EventsOf(log, "evict") # {}
    /\ Cardinality(Resident) = BUFFER_CAPACITY
    /\ Cardinality(Occupied) = BUFFER_CAPACITY

\* ---- C3 ----
\* C3 (LRU correctness): a fetchPage that misses while all frames are
\* occupied evicts exactly one page, and that page is the resident page whose
\* latest fetch is older than the latest fetch of every other resident page.
LRUCorrect ==
    [][(/\ EventsOf(log', "load") # {}
        /\ Cardinality(Resident) = BUFFER_CAPACITY)
       => /\ Cardinality(EventsOf(log', "evict")) = 1
          /\ \A i \in EventsOf(log', "evict") :
                 /\ log'[i].page \in Resident
                 /\ \A q \in Resident \ {log'[i].page} :
                        Pos(recent, q) < Pos(recent, log'[i].page)]_vars

\* a miss on a full pool evicted the page of a frame other than frame 0, so
\* the victim was not simply the page loaded first
LRUWitness ==
    /\ EventsOf(log, "load") # {}
    /\ \E i \in EventsOf(log, "evict") : log[i].frame # 0

\* ---- C8 ----
\* C8 (allocation): the identifiers returned by successive allocatePage calls
\* are 0, 1, 2, ...: strictly increasing, none returned twice.
AllocIncreasing ==
    /\ \A i \in 1..Len(allocs) : allocs[i] = i - 1
    /\ \A i, j \in 1..Len(allocs) : i < j => allocs[i] < allocs[j]

\* two allocations with an eviction in the run
AllocWitness == Len(allocs) >= 2 /\ evicted

\* ---- C9 ----
\* C9 (one frame per page): no page identifier is held by two different
\* occupied frames.
OneFramePerPage ==
    \A f, g \in Occupied : pool[f].pageID = pool[g].pageID => f = g

\* a page was fetched again (a hit) while all frames are occupied
OneFrameWitness ==
    /\ EventsOf(log, "hit") # {}
    /\ Occupied = Frames

\* ---- C4 ----
\* C4 as claimed (leaf ordering, strict): every leaf image holds at most
\* MAX_KEYS keys and keys[0..numKeys-1] are strictly ascending.
LeafStrictlyAscending ==
    \A n \in LeafImages :
        /\ n.numKeys <= MAX_KEYS
        /\ \A i, j \in 0..(n.numKeys - 1) : i < j => n.keys[i] < n.keys[j]

\* C4 as amended (leaf ordering): every leaf image holds at most MAX_KEYS
\* keys and keys[0..numKeys-1] are in ascending order, equal keys allowed.
LeafAscending ==
    \A n \in LeafImages :
        /\ n.numKeys <= MAX_KEYS
        /\ \A i, j \in 0..(n.numKeys - 1) : i < j => n.keys[i] <= n.keys[j]

\* a full leaf with a repeated key, in a tree that has split
LeafWitness ==
    /\ rootChanges = 1
    /\ \E n \in LeafImages :
           /\ n.numKeys = MAX_KEYS
           /\ \E i \in 0..(MAX_KEYS - 2) : n.keys[i] = n.keys[i + 1]

NonRootSplits == {i \in EventsOf(log, "split") : ~log[i].flag}

GapCommon(i) ==
    /\ \A j \in EventsOf(log, "parent") : ~log[j].flag
    /\ nextPageID = log[i].frame + 1
    /\ rootPage = log[2].page
    /\ RootNode.numKeys = log[2].data.numKeys
    /\ RootNode.keys = log[2].data.keys
    /\ RootNode.children = log[2].data.children
    /\ log[i].frame \notin RootChildren
    /\ log[i].frame # rootPage

\* C6 as claimed (gap scenario): when an insert splits a full leaf that is
\* not the root, insertIntoParent does nothing, the root reference and the
\* root's keys and children are unchanged, the new sibling is no child of a
\* node reachable from the root, and no key moved into the sibling is found
\* in a leaf reachable from the root.
GapKeysGone ==
    \A i \in NonRootSplits :
        /\ GapCommon(i)
        /\ KeysOf(log[i].data) \cap ReachableLeafKeys = {}

\* C6 as amended: the same, except that a key value moved into the sibling
\* may still be found in a reachable leaf when an equal value stayed in the
\* split leaf.
GapSiblingUnreachable ==
    \A i \in NonRootSplits :
        /\ GapCommon(i)
        /\ log[i].page \in Resident
        /\ KeysOf(log[i].data) \cap ReachableLeafKeys
               \subseteq KeysOf(pool[pageTable[log[i].page]].data)

\* the last insert split a leaf below an internal root
GapWitness == NonRootSplits # {} /\ ~RootNode.isLeaf

\* ---- C10 ----
\* pages visited by findLeaf for key k from the current state
DescentLength(k) ==
    Cardinality(EventsOf(findLeaf(Begin("view", k, ZeroPage), rootPage, k).log,
                         "visit"))

TwoShapes ==
    /\ \/ RootNode.isLeaf
       \/ /\ RootNode.numKeys = 1
          /\ Cardinality(RootChildren) = 2
          /\ \A c \in RootChildren : NodeBelowRoot(c).isLeaf
    /\ \A k \in Keys : DescentLength(k) <= 2
    /\ rootChanges <= 1

RootStep ==
    rootPage' # rootPage =>
        /\ rootChanges = 0
        /\ RootNode.isLeaf
        /\ \E i \in EventsOf(log', "split") : log'[i].flag

\* C10 (tree shapes): the root is a leaf, or an internal node with exactly
\* one key over exactly two leaves; no descent visits more than two pages;
\* the root reference changes at most once, in the insert that splits the
\* root leaf.
TreeShape == []TwoShapes /\ [][RootStep]_vars

\* an internal root whose leaf was split again after the root changed
TreeShapeWitness ==
    /\ rootChanges = 1
    /\ ~RootNode.isLeaf
    /\ NonRootSplits # {}
    /\ evicted

\* ---- C11 ----
\* the last load of the last call into frame f, 0 when there is none
LastLoad(l, f) ==
    LET at == {i \in EventsOf(l, "load") : l[i].frame = f}
    IN IF at = {} THEN 0 ELSE CHOOSE i \in at : \A j \in at : j <= i

\* between two consecutive steps of a call, and between its last step and its
\* end, a dirty flag falls only in the step that loads the frame
DirtyCleared ==
    /\ \A i \in 2..Len(log) : \A f \in Frames :
           (log[i - 1].dirty[f] /\ ~log[i].dirty[f])
               => (log[i].op = "load" /\ log[i].frame = f)
    /\ \A f \in Frames : log[Len(log)].dirty[f] => pool[f].dirty

\* a clean resident frame that the last call loaded still has the bytes of
\* that load, and no clean resident frame differs from the file's image
CleanAsLoaded ==
    \A f \in Occupied :
        ~pool[f].dirty =>
            /\ LastLoad(log, f) # 0 => pool[f].data = log[LastLoad(log, f)].data
            /\ pool[f].data = DiskImage(file, pool[f].pageID)

\* a clean resident frame that the call did not load is as it was before
CleanUntouched ==
    \A f \in Frames :
        (pool'[f].pageID # -1 /\ ~pool'[f].dirty /\ LastLoad(log', f) = 0)
            => pool'[f] = pool[f]

CleanEvictNoWrite ==
    [][(\E i \in EventsOf(log', "evict") : ~log'[i].flag)
          => file' = file]_vars

\* a clean victim was evicted while the stream was good, the file held an
\* image of its page and the frame's bytes differed from that image
CleanEvictWitness ==
    /\ ~failed
    /\ \E i \in EventsOf(log, "evict") :
           /\ ~log[i].flag
           /\ log[i].disk # NoPage
           /\ log[i].data # log[i].disk

\* ---- C13 ----
\* C13 (recency list): after every call the recency list holds each occupied
\* frame index exactly once and nothing else: no index twice, as many
\* entries as the page table, the same indices as the page table's values,
\* and these are 0..n-1 for n resident pages.
RecencyExact ==
    /\ \A i, j \in 1..Len(lru) : i # j => lru[i] # lru[j]
    /\ Len(lru) = Cardinality(Resident)
    /\ {lru[i] : i \in 1..Len(lru)} = {pageTable[q] : q \in Resident}
    /\ {pageTable[q] : q \in Resident} = 0..(Cardinality(Resident) - 1)

\* the last call evicted the page of a frame other than the last one and
\* the reused frame is now the newest of a full list
RecencyWitness ==
    /\ Len(lru) = BUFFER_CAPACITY
    /\ \E i \in EventsOf(log, "evict") :
           /\ log[i].frame # BUFFER_CAPACITY - 1
           /\ lru[1] = log[i].frame

\* ---- C14 ----
\* the node behind pointer `name` at its last use in the last call
UsedNode(name) == log[CHOOSE i \in EventsOf(log, name) : TRUE].data

\* keys[0..numKeys-1] of a node as a sequence
KeySeq(n) == [j \in 1..n.numKeys |-> n.keys[j - 1]]

\* number of occurrences of v in the sequence q
Count(q, v) == Cardinality({j \in 1..Len(q) : q[j] = v})

\* C14 (splitLeaf): when an insert of key k splits a full leaf, the old leaf
\* ends with mid = (MAX_KEYS+1)/2 keys and the new leaf with the other
\* MAX_KEYS+1-mid; the old leaf's keys followed by the new leaf's keys are
\* in ascending order and are, as a multiset, the old leaf's keys before the
\* split plus k; and insertIntoParent receives the old page, the new leaf's
\* first key and the new page.
SplitExact ==
    \A i \in EventsOf(log, "split") :
        /\ log[i].disk.isLeaf
        /\ log[i].disk.numKeys = MAX_KEYS
        /\ UsedNode("oldNode").numKeys = (MAX_KEYS + 1) \div 2
        /\ UsedNode("newNode").numKeys
               = (MAX_KEYS + 1) - ((MAX_KEYS + 1) \div 2)
        /\ UsedNode("newNode").isLeaf
        /\ LET after == KeySeq(UsedNode("oldNode"))
                             \o KeySeq(UsedNode("newNode"))
               before == KeySeq(log[i].disk) \o <<log[1].page>>
           IN /\ \A a, b \in 1..Len(after) : a < b => after[a] <= after[b]
              /\ \A v \in Keys \cup {0} : Count(after, v) = Count(before, v)
        /\ \E j \in EventsOf(log, "parent") :
               /\ j > i
               /\ log[j].page = log[i].page
               /\ log[j].frame = log[i].frame
               /\ log[j].data.keys[0] = UsedNode("newNode").keys[0]

\* the last insert split a leaf below the root whose keys were not all
\* equal, with a key that belongs in the middle of them
SplitWitness ==
    \E i \in NonRootSplits :
        /\ log[i].disk.keys[0] < log[1].page
        /\ log[1].page < log[i].disk.keys[MAX_KEYS - 1]

\* ---- C15 ----
\* the first index i with key < keys[i], numKeys when there is none
FirstGreater(n, key) ==
    IF \E i \in 0..(n.numKeys - 1) : key < n.keys[i]
    THEN CHOOSE i \in 0..(n.numKeys - 1) :
             /\ key < n.keys[i]
             /\ \A j \in 0..(i - 1) : ~(key < n.keys[j])
    ELSE n.numKeys

\* C15 (findLeaf): a findLeaf(page, key) call that finds a leaf at `page`
\* returns it without visiting another page; on an internal node it goes on
\* with children[i], i the first index with key < keys[i], or with
\* children[numKeys] when there is no such index, so a key equal to a
\* separator goes to the child right of it; it returns the leaf it reaches.
Routing ==
    log[1].op = "findLeaf" =>
        \A i \in EventsOf(log, "visit") :
            IF log[i].flag
            THEN /\ \A j \in EventsOf(log, "visit") : j <= i
                 /\ \E r \in EventsOf(log, "return") : log[r].page = log[i].page
            ELSE \E j \in EventsOf(log, "visit") :
                     /\ j > i
                     /\ \A m \in EventsOf(log, "visit") : m > i => j <= m
                     /\ log[j].page =
                            log[i].data.children[FirstGreater(log[i].data,
                                                              log[1].page)]

\* a descent from a node with MAX_KEYS keys, for a key equal to a separator
\* that is not the last one
RoutingWitness ==
    /\ log[1].op = "findLeaf"
    /\ \E i \in EventsOf(log, "visit") :
           /\ ~log[i].flag
           /\ log[i].data.numKeys = MAX_KEYS
           /\ log[1].page = log[i].data.keys[0]
           /\ log[i].data.keys[0] < log[i].data.keys[1]
    /\ EventsOf(log, "return") # {}

\* ---- C16 ----
\* C16 (markDirty): a markDirty(p) call on a page that is not resident
\* changes no frame, no page table entry, no recency order and nothing of
\* the file; on a resident page it sets the dirty flag of that page's frame
\* and changes nothing else.
MarkDirtyEffect ==
    [][log'[1].op = "markDirty" =>
          /\ pageTable' = pageTable
          /\ lru' = lru
          /\ file' = file
          /\ failed' = failed
          /\ nextPageID' = nextPageID
          /\ pool' = IF log'[1].page \in Resident
                     THEN [pool EXCEPT ![pageTable[log'[1].page]].dirty = TRUE]
                     ELSE pool]_vars

\* the last call was markDirty on a resident page whose frame was clean and
\* is not the newest; the stream is good and every frame is occupied
MarkDirtyWitness ==
    /\ log # <<>>
    /\ log[1].op = "markDirty"
    /\ log[1].page \in Resident
    /\ ~log[1].dirty[pageTable[log[1].page]]
    /\ pool[pageTable[log[1].page]].dirty
    /\ lru[1] # pageTable[log[1].page]
    /\ ~failed
    /\ Occupied = Frames

\* ---- C17 ----
\* the steps in which the tree code uses a pointer fetchPage returned
PointerUses ==
    {i \in 1..Len(log) :
        log[i].op \in {"visit", "root", "node", "oldNode", "newNode", "r"}}

\* C17 (no stale view): in the constructor and in every insert, whenever
\* the tree code reads or writes node bytes through a pointer it got from
\* fetchPage(p) (root, node, oldNode, newNode, r), the frame behind the
\* pointer holds page p at that moment, and oldNode and newNode are
\* different frames.
NoStaleView ==
    /\ \A i \in PointerUses : log[i].held[log[i].frame] = log[i].page
    /\ \A i \in EventsOf(log, "oldNode") :
       \A j \in EventsOf(log, "newNode") : log[i].frame # log[j].frame

\* the last insert split a leaf and the allocation of the sibling evicted a
\* page while the pointers of splitLeaf were about to be taken
NoStaleViewWitness ==
    /\ EventsOf(log, "oldNode") # {}
    /\ EventsOf(log, "newNode") # {}
    /\ \E i \in EventsOf(log, "evict") :
       \E j \in EventsOf(log, "oldNode") : i < j

\* ---- C18 ----
\* the content of page p: its frame's bytes when resident, else its image
\* in the file
PageContent(p) ==
    IF p \in Resident THEN pool[pageTable[p]].data ELSE DiskImage(file, p)

\* C18 (eviction is transparent): after the constructor and after every
\* insert, the root page, the number of allocated pages and the content of
\* every allocated page are those of the same inserts done over a page map
\* that never evicts.
EvictionTransparent ==
    /\ rootPage = ideal.rootPage
    /\ nextPageID = Len(ideal.mem)
    /\ \A p \in 0..(nextPageID - 1) : PageContent(p) = ideal.mem[p + 1]

\* ---- C19 ----
\* C19 (separator): whenever the root is an internal node, every key stored
\* in the leaf children[0] is less than the root's keys[0] and every key
\* stored in the leaf children[1] is greater than or equal to it.
Separator ==
    ~PageContent(rootPage).isLeaf =>
        /\ \A k \in KeysOf(PageContent(PageContent(rootPage).children[0])) :
               k < PageContent(rootPage).keys[0]
        /\ \A k \in KeysOf(PageContent(PageContent(rootPage).children[1])) :
               k >= PageContent(rootPage).keys[0]

\* ---- C20 ----
\* C20 (parent references): after the constructor and after every insert
\* the root node's parentPage is -1, and every page listed as a child of
\* the internal root has parentPage equal to the root's page identifier.
ParentRefs ==
    /\ PageContent(rootPage).parentPage = -1
    /\ ~PageContent(rootPage).isLeaf =>
           \A i \in 0..PageContent(rootPage).numKeys :
               PageContent(PageContent(rootPage).children[i]).parentPage
                   = rootPage

====
